---- MODULE Spec2Model ----
(***************************************************************************)
(* Model of the SVG typesetting core of font-scope                         *)
(* (src-tauri/src/lib.rs): generate_svg, generate_horizontal_svg and       *)
(* generate_vertical_svg, one generation call per behaviour.               *)
(*                                                                         *)
(* Numbers.  Every f64 of the program is a rational here, held as an       *)
(* integer count of 1/Unit output units, Unit = 20 * units_per_em, so that *)
(* advance * scale, font_size * 1.2, font_size * 0.5 and the halvings of   *)
(* the centering code are all exact.  f64 rounding error is not modelled.  *)
(***************************************************************************)
EXTENDS Integers, Sequences, FiniteSets, TLC

\* ---------------------------------------------------------------- bounds
MaxTextLen == 3
MaxLayers == 2

\* ------------------------------------------------------------- Option<T>
Some(v) == [some |-> TRUE, v |-> v]
None == [some |-> FALSE, v |-> 0]

\* ------------------------------------------------------------ characters
\* "A"  mapped, has an outline          " "  whitespace, mapped, no outline
\* "x"  no glyph in the font            "z"  mapped, glyph without hmtx entry;
\* "\n" line break                           the shaper decomposes it in two
Chars == {"A", " ", "x", "z", "\n"}

IsWhitespace(ch) == ch \in {" ", "\n"}

escape_xml_char(ch) ==
    CASE ch = "\"" -> "&quot;"
      [] ch = "&" -> "&amp;"
      [] ch = "<" -> "&lt;"
      [] ch = ">" -> "&gt;"
      [] OTHER -> ch

\* ------------------------------------------------------------------ face
UnitsPerEm == 1000
Ascender == 880

BoxOutline == << [op |-> "M", pts |-> <<0, 0>>],
                 [op |-> "L", pts |-> <<500, 0>>],
                 [op |-> "L", pts |-> <<500, 700>>],
                 [op |-> "Z", pts |-> <<>>] >>
AOutline == << [op |-> "M", pts |-> <<0, 0>>],
               [op |-> "Q", pts |-> <<300, 700, 600, 0>>],
               [op |-> "Z", pts |-> <<>>],
               [op |-> "M", pts |-> <<200, 200>>],
               [op |-> "L", pts |-> <<400, 200>>],
               [op |-> "Z", pts |-> <<>>] >>
ZOutline == << [op |-> "M", pts |-> <<0, -200>>],
               [op |-> "C", pts |-> <<100, 0, 200, 350, 400, 700>>],
               [op |-> "Z", pts |-> <<>>] >>
MarkOutline == << [op |-> "M", pts |-> <<0, 32767>>],
                  [op |-> "L", pts |-> <<10, -32768>>],
                  [op |-> "Z", pts |-> <<>>] >>

\* The glyphs of the face, indexed by glyph id + 1.  Each field is what the
\* ttf_parser::Face accessor of the same name returns for the glyph;
\* buzz_y_advance is the y_advance rustybuzz reports for it.
Glyphs == <<
    \* 0: .notdef
    [ hor_advance |-> Some(500), ver_advance |-> None, y_origin |-> None,
      bbox |-> Some([y_min |-> 0, y_max |-> 700]), ver_side_bearing |-> None,
      buzz_y_advance |-> -1000, outline |-> BoxOutline ],
    \* 1: "A"
    [ hor_advance |-> Some(600), ver_advance |-> Some(1000), y_origin |-> Some(880),
      bbox |-> Some([y_min |-> 0, y_max |-> 700]), ver_side_bearing |-> Some(180),
      buzz_y_advance |-> -1100, outline |-> AOutline ],
    \* 2: space
    [ hor_advance |-> Some(250), ver_advance |-> None, y_origin |-> None,
      bbox |-> None, ver_side_bearing |-> None,
      buzz_y_advance |-> 0, outline |-> <<>> ],
    \* 3: "z": no horizontal metrics, native vertical advance
    [ hor_advance |-> None, ver_advance |-> Some(900), y_origin |-> None,
      bbox |-> Some([y_min |-> -200, y_max |-> 700]), ver_side_bearing |-> Some(100),
      buzz_y_advance |-> 0, outline |-> ZOutline ],
    \* 4: mark produced by the shaper only; bounding box spans the i16 range
    [ hor_advance |-> Some(0), ver_advance |-> None, y_origin |-> None,
      bbox |-> Some([y_min |-> -32768, y_max |-> 32767]), ver_side_bearing |-> None,
      buzz_y_advance |-> -200, outline |-> MarkOutline ] >>

Glyph(gid) == Glyphs[gid + 1]

glyph_index(ch) ==
    CASE ch = "A" -> Some(1)
      [] ch = " " -> Some(2)
      [] ch = "z" -> Some(3)
      [] OTHER -> None

glyph_hor_advance(gid) == Glyph(gid).hor_advance
glyph_ver_advance(gid) == Glyph(gid).ver_advance
glyph_y_origin(gid) == Glyph(gid).y_origin
glyph_bounding_box(gid) == Glyph(gid).bbox
glyph_ver_side_bearing(gid) == Glyph(gid).ver_side_bearing

\* rustybuzz::shape(line, TopToBottom): the glyph ids in shaped order.  A
\* character without a glyph shapes to .notdef (0); "z" decomposes into its
\* base glyph and a mark, so the shaped count can exceed the character count.
RECURSIVE Shape(_)
Shape(line) ==
    IF line = <<>> THEN <<>>
    ELSE LET ch == Head(line)
             g == glyph_index(ch)
         IN (IF ch = "z" THEN <<3, 4>>
             ELSE IF g.some THEN <<g.v>>
             ELSE <<0>>) \o Shape(Tail(line))

\* --------------------------------------------------------------- numbers
Unit == 20 * UnitsPerEm

\* n output units
Px(n) == n * Unit

\* round to nearest, ties to even: format!("{:.0}") / ("{:.2}") of v / d
RoundDiv(v, d) ==
    LET q == v \div d
        r == v % d
    IN IF 2 * r < d THEN q
       ELSE IF 2 * r > d THEN q + 1
       ELSE IF q % 2 = 0 THEN q ELSE q + 1

\* "{:.0}": whole output units
Fmt0(v) == RoundDiv(v, Unit)
\* "{:.2}": hundredths of an output unit
Fmt2(v) == RoundDiv(v, Unit \div 100)

\* i16 arithmetic of a build without overflow checks
WrapI16(v) == ((v + 32768) % 65536) - 32768
InI16(v) == v >= -32768 /\ v <= 32767

\* str::lines(): split on "\n"; a final line break ends the last line and
\* opens no further one
RECURSIVE SplitLines(_, _)
SplitLines(text, cur) ==
    IF text = <<>> THEN (IF cur = <<>> THEN <<>> ELSE <<cur>>)
    ELSE IF Head(text) = "\n" THEN <<cur>> \o SplitLines(Tail(text), <<>>)
    ELSE SplitLines(Tail(text), Append(cur, Head(text)))

\* split('\n'): the text after the last line break is a line of its own
RECURSIVE SplitAtBreaks(_, _)
SplitAtBreaks(text, cur) ==
    IF text = <<>> THEN <<cur>>
    ELSE IF Head(text) = "\n" THEN <<cur>> \o SplitAtBreaks(Tail(text), <<>>)
    ELSE SplitAtBreaks(Tail(text), Append(cur, Head(text)))

LinesKeepingLast(text) == SplitAtBreaks(text, <<>>)

\* empty lines dropped
LinesWithoutEmpty(text) == SelectSeq(SplitLines(text, <<>>), LAMBDA l : l # <<>>)

Lines(text) == SplitLines(text, <<>>)


\* ---------------------------------------------------- request (the input)
FontSizes == {100, 30}
LayerColors == <<"red", "green", "blue", "black">>

\* the stroke_layers lists: layer i has width i and the i-th colour, so that
\* the declaration order can be read off the output
LayerLists ==
    UNION { [1..n -> BOOLEAN] : n \in 0..MaxLayers }

MakeLayers(flags) ==
    [i \in 1..Len(flags) |->
        [enabled |-> flags[i], width |-> i, color |-> LayerColors[i]]]

RECURSIVE SeqsUpTo(_, _)
SeqsUpTo(S, n) ==
    IF n = 0 THEN {<<>>}
    ELSE LET shorter == SeqsUpTo(S, n - 1)
         IN shorter \cup { Append(s, c) : s \in shorter, c \in S }

Texts == SeqsUpTo(Chars, MaxTextLen)

ExportModes == {"path_only", "fill", "fill_and_stroke"}

Requests ==
    [ text : Texts,
      font_size : FontSizes,
      text_color : {"navy"},
      stroke_layers : { MakeLayers(f) : f \in LayerLists },
      export_mode : ExportModes,
      vertical : BOOLEAN ]

\* ------------------------------------------------- generate_svg's helpers
\* value * scale, scale = font_size / units_per_em
Scaled(v, font_size) == v * font_size * (Unit \div UnitsPerEm)

\* request.font_size as a length
FontSizeLen(font_size) == Px(font_size)

\* request.font_size * 1.2
LineHeight(font_size) == (Px(font_size) * 12) \div 10

RECURSIVE SelectEnabled(_)
SelectEnabled(layers) ==
    IF layers = <<>> THEN <<>>
    ELSE IF Head(layers).enabled THEN <<Head(layers)>> \o SelectEnabled(Tail(layers))
    ELSE SelectEnabled(Tail(layers))

RECURSIVE Reverse(_)
Reverse(s) == IF s = <<>> THEN <<>> ELSE Append(Reverse(Tail(s)), Head(s))

\* the enabled layers kept in declaration order
EnabledInDeclarationOrder(layers) == SelectEnabled(layers)

\* stroke_layers.iter().filter(|l| l.enabled).rev().collect()
EnabledStrokeLayers(layers) == Reverse(SelectEnabled(layers))

IsPathOnly(export_mode) == export_mode = "path_only"
IncludeStroke(export_mode) == export_mode = "fill_and_stroke"

\* -------------------------------------------------------------- builders
\* one outline segment through a builder's transform_x / transform_y,
\* formatted "{:.2}"
TransformSegment(seg, TX(_), TY(_)) ==
    [ op |-> seg.op,
      args |-> [i \in 1..Len(seg.pts) |->
                  IF i % 2 = 1 THEN Fmt2(TX(seg.pts[i])) ELSE Fmt2(TY(seg.pts[i]))] ]

\* PathBuilder: face.outline_glyph(glyph_id, &mut builder)
HorizontalPath(gid, font_size, offset_x, offset_y) ==
    LET transform_x(x) == Scaled(x, font_size) + offset_x
        transform_y(y) == offset_y - Scaled(y, font_size)
        outline == Glyph(gid).outline
    IN [i \in 1..Len(outline) |-> TransformSegment(outline[i], transform_x, transform_y)]

\* VerticalPathBuilder
VerticalPath(gid, font_size, col_center_x, glyph_top_y, hor_advance) ==
    LET glyph_center_offset == hor_advance \div 2
        transform_x(x) == col_center_x + (Scaled(x, font_size) - glyph_center_offset)
        transform_y(y) == glyph_top_y - Scaled(y, font_size)
        outline == Glyph(gid).outline
    IN [i \in 1..Len(outline) |-> TransformSegment(outline[i], transform_x, transform_y)]

\* ------------------------------------------------------ path elements
BarePath(path_data) ==
    [ d |-> path_data, attrs |-> {}, fill |-> "", stroke |-> "", stroke_width |-> 0 ]

\* stroke-width "{:.1}" of width * 2.0, in tenths
StrokePath(path_data, layer) ==
    [ d |-> path_data,
      attrs |-> {"fill", "stroke", "stroke-width", "stroke-linejoin", "stroke-linecap"},
      fill |-> layer.color, stroke |-> layer.color,
      stroke_width |-> layer.width * 2 * 10 ]

FillPath(path_data, text_color) ==
    [ d |-> path_data, attrs |-> {"fill"}, fill |-> text_color, stroke |-> "",
      stroke_width |-> 0 ]

\* the path-only branch styled like a fill
GroupPathsStyled(path_data, path_only, with_stroke, layers, text_color) ==
    (IF with_stroke /\ layers # <<>>
     THEN [i \in 1..Len(layers) |-> StrokePath(path_data, layers[i])]
     ELSE <<>>)
    \o << FillPath(path_data, text_color) >>

\* the path elements of one glyph group
GroupPaths(path_data, path_only, with_stroke, layers, text_color) ==
    IF path_only THEN << BarePath(path_data) >>
    ELSE (IF with_stroke /\ layers # <<>>
          THEN [i \in 1..Len(layers) |-> StrokePath(path_data, layers[i])]
          ELSE <<>>)
         \o << FillPath(path_data, text_color) >>

Group(index, ch, paths) ==
    [ id |-> index, data_char |-> escape_xml_char(ch), paths |-> paths ]

\* --------------------------------------------------------------- metrics
\* the horizontal advance generate_horizontal_svg adds for a character
HorAdvance(gid, font_size) ==
    IF glyph_hor_advance(gid).some
    THEN Scaled(glyph_hor_advance(gid).v, font_size)
    ELSE 0

\* whitespace taken to have no advance
HorizontalStepSkippingSpace(ch, font_size) ==
    LET g == glyph_index(ch)
    IN IF g.some /\ ~IsWhitespace(ch) THEN HorAdvance(g.v, font_size) ELSE 0

\* if let Some(glyph_id) = face.glyph_index(ch) { if let Some(advance) = ... }
HorizontalStep(ch, font_size) ==
    LET g == glyph_index(ch)
    IN IF g.some THEN HorAdvance(g.v, font_size) ELSE 0

\* the font's own vertical advance preferred to the shaper's
VerticalAdvanceNativeFirst(gid, font_size) ==
    IF glyph_ver_advance(gid).some
    THEN Scaled(glyph_ver_advance(gid).v, font_size)
    ELSE IF Glyph(gid).buzz_y_advance # 0
         THEN -Scaled(Glyph(gid).buzz_y_advance, font_size)
         ELSE FontSizeLen(font_size)

\* vertical: y_advance of a shaped glyph
VerticalAdvance(gid, font_size) ==
    IF Glyph(gid).buzz_y_advance # 0
    THEN -Scaled(Glyph(gid).buzz_y_advance, font_size)
    ELSE IF glyph_ver_advance(gid).some
         THEN Scaled(glyph_ver_advance(gid).v, font_size)
         ELSE FontSizeLen(font_size)

\* vertical: glyph_hor_advance of a shaped glyph
VerticalHorAdvance(gid, font_size) ==
    IF glyph_hor_advance(gid).some
    THEN Scaled(glyph_hor_advance(gid).v, font_size)
    ELSE FontSizeLen(font_size)

\* vertical: glyph_y_origin of a shaped glyph
VerticalOrigin(gid, font_size) ==
    IF glyph_y_origin(gid).some
    THEN Scaled(glyph_y_origin(gid).v, font_size)
    ELSE IF glyph_bounding_box(gid).some
         THEN LET tsb == IF glyph_ver_side_bearing(gid).some
                         THEN glyph_ver_side_bearing(gid).v ELSE 0
              IN Scaled(glyph_bounding_box(gid).v.y_max + tsb, font_size)
         ELSE Scaled(Ascender, font_size)

\* bbox.y_max - bbox.y_min, computed in i16
HeightOverflows(gid) ==
    /\ glyph_bounding_box(gid).some
    /\ ~InI16(glyph_bounding_box(gid).v.y_max - glyph_bounding_box(gid).v.y_min)

\* vertical: glyph_height of a shaped glyph (wrapping when it overflows)
VerticalGlyphHeight(gid, font_size) ==
    IF glyph_bounding_box(gid).some
    THEN Scaled(WrapI16(glyph_bounding_box(gid).v.y_max - glyph_bounding_box(gid).v.y_min),
                font_size)
    ELSE FontSizeLen(font_size)


\* info.glyph_id as u16
GlyphIdU16(id) == id % 65536

\* ------------------------------------------------------ canvas geometry
\* horizontal: let padding = 20.0
HorizontalPadding == Px(20)

\* vertical: request.font_size * 0.5 + 20.0
VerticalPadding(font_size) == (Px(font_size) \div 2) + Px(20)

HorizontalCanvasWidth(widest) == widest + HorizontalPadding * 2
HorizontalCanvasHeight(line_count, font_size) ==
    line_count * LineHeight(font_size) + HorizontalPadding * 2

\* every line started at the left padding
StartXAtPadding(canvas_width, line_width) == HorizontalPadding

\* (svg_width - line_width) / 2.0
StartX(canvas_width, line_width) == (canvas_width - line_width) \div 2

\* padding + ((line_index + 1) as f64) * line_height
BaselineY(index, font_size) == HorizontalPadding + (index + 1) * LineHeight(font_size)

VerticalCanvasWidth(line_count, font_size) ==
    line_count * LineHeight(font_size) + VerticalPadding(font_size) * 2
VerticalCanvasHeight(tallest, font_size) == tallest + VerticalPadding(font_size) * 2

\* columns counted from the left edge
ColCenterXFromLeft(canvas_width, col_index, font_size) ==
    VerticalPadding(font_size) + ((2 * col_index + 1) * LineHeight(font_size)) \div 2

\* svg_width - padding - (col_index as f64 + 0.5) * line_height
ColCenterX(canvas_width, col_index, font_size) ==
    canvas_width - VerticalPadding(font_size)
        - ((2 * col_index + 1) * LineHeight(font_size)) \div 2

Header(w, h) == [ width |-> Fmt0(w), height |-> Fmt0(h), groups |-> <<>>, closed |-> FALSE ]

\* ------------------------------------------------------------------ state
VARIABLES
    request,                \* the SvgExportRequest of this call
    pc,                     \* where the call stands
    result,                 \* what the call returned, once it has
    is_path_only, include_stroke, enabled_stroke_layers,
    lines, line_index, pos, \* loop positions (0-based, as in the code)
    width, max_width, line_widths,
    column_glyphs, height, max_height, column_infos,
    svg_width, svg_height, svg_content,
    char_index,
    start_x, baseline_y, cursor_x,
    col_center_x, cursor_y,
    last                    \* the loop body that ran last and what it started from

vars == << request, pc, result, is_path_only, include_stroke, enabled_stroke_layers,
           lines, line_index, pos, width, max_width, line_widths,
           column_glyphs, height, max_height, column_infos,
           svg_width, svg_height, svg_content, char_index,
           start_x, baseline_y, cursor_x, col_center_x, cursor_y, last >>

setup == << is_path_only, include_stroke, enabled_stroke_layers >>
hvars == << width, max_width, line_widths, start_x, baseline_y, cursor_x >>
vvars == << column_glyphs, height, max_height, column_infos, col_center_x, cursor_y >>

NoResult == [ kind |-> "none", msg |-> "" ]
\* what the loop body `op` started from: the character and glyph it handled,
\* the cursor, the loop positions and the output so far
Trace(op, ch, gid, cursor) ==
    [ op |-> op, ch |-> ch, gid |-> gid, cursor |-> cursor,
      char_index |-> char_index, ngroups |-> Len(svg_content.groups),
      line_index |-> line_index, pos |-> pos,
      start_x |-> start_x, col_center_x |-> col_center_x ]

Init ==
    /\ request \in Requests
    /\ pc = "start"
    /\ result = NoResult
    /\ is_path_only = FALSE
    /\ include_stroke = FALSE
    /\ enabled_stroke_layers = <<>>
    /\ lines = <<>>
    /\ line_index = 0
    /\ pos = 0
    /\ width = 0
    /\ max_width = 0
    /\ line_widths = <<>>
    /\ column_glyphs = <<>>
    /\ height = 0
    /\ max_height = 0
    /\ column_infos = <<>>
    /\ svg_width = 0
    /\ svg_height = 0
    /\ svg_content = Header(0, 0)
    /\ char_index = 0
    /\ start_x = 0
    /\ baseline_y = 0
    /\ cursor_x = 0
    /\ col_center_x = 0
    /\ cursor_y = 0
    /\ last = [ op |-> "", ch |-> "", gid |-> 0, cursor |-> 0, char_index |-> 0,
                ngroups |-> 0, line_index |-> 0, pos |-> 0, start_x |-> 0,
                col_center_x |-> 0 ]

\* ------------------------------------------------------------ generate_svg
FontErrors ==
    { "Failed to find font", "Font is loaded from memory, not a file",
      "Failed to read font file", "Failed to parse font" }

\* the font is not resolved, read or parsed: an error value is returned
GenerateSvgFontError ==
    /\ pc = "start"
    /\ \E e \in FontErrors : result' = [ kind |-> "err", msg |-> e ]
    /\ pc' = "done"
    /\ last' = Trace("GenerateSvgFontError", "", 0, 0)
    /\ UNCHANGED << request, setup, lines, line_index, pos, hvars, vvars,
                    svg_width, svg_height, svg_content, char_index >>

\* the face is parsed; the mode flags and the layer list are derived and the
\* layout engine is chosen
GenerateSvg ==
    /\ pc = "start"
    /\ is_path_only' = IsPathOnly(request.export_mode)
    /\ include_stroke' = IncludeStroke(request.export_mode)
    /\ enabled_stroke_layers' = EnabledStrokeLayers(request.stroke_layers)
    /\ IF request.vertical
       THEN /\ pc' = "v_init"
            /\ UNCHANGED lines
       ELSE /\ pc' = "h_measure"
            /\ lines' = Lines(request.text)
    /\ last' = Trace("GenerateSvg", "", 0, 0)
    /\ UNCHANGED << request, result, line_index, pos, hvars, vvars,
                    svg_width, svg_height, svg_content, char_index >>


\* ------------------------------------------------------- character index
\* whitespace given no index of its own
CharIndexAfterVisible(index, ch) == IF IsWhitespace(ch) THEN index ELSE index + 1

\* char_index += 1, whatever the character
CharIndexAfter(index, ch) == index + 1

\* ------------------------------------------------ generate_horizontal_svg
CurLine == lines[line_index + 1]
CurChar == CurLine[pos + 1]

\* first pass, one character: width += advance * scale
HMeasureChar ==
    /\ pc = "h_measure"
    /\ line_index < Len(lines)
    /\ pos < Len(CurLine)
    /\ width' = width + HorizontalStep(CurChar, request.font_size)
    /\ pos' = pos + 1
    /\ last' = Trace("HMeasureChar", CurChar, 0, width)
    /\ UNCHANGED << request, pc, result, setup, lines, line_index, max_width, line_widths,
                    start_x, baseline_y, cursor_x, vvars,
                    svg_width, svg_height, svg_content, char_index >>

\* first pass, end of a line: line_widths.push(width), max_width
HMeasureLineEnd ==
    /\ pc = "h_measure"
    /\ line_index < Len(lines)
    /\ pos = Len(CurLine)
    /\ line_widths' = Append(line_widths, width)
    /\ max_width' = IF width > max_width THEN width ELSE max_width
    /\ width' = 0
    /\ pos' = 0
    /\ line_index' = line_index + 1
    /\ last' = Trace("HMeasureLineEnd", "", 0, width)
    /\ UNCHANGED << request, pc, result, setup, lines, start_x, baseline_y, cursor_x, vvars,
                    svg_width, svg_height, svg_content, char_index >>

\* canvas size and document header
HHeader ==
    /\ pc = "h_measure"
    /\ line_index = Len(lines)
    /\ svg_width' = HorizontalCanvasWidth(max_width)
    /\ svg_height' = HorizontalCanvasHeight(Len(lines), request.font_size)
    /\ svg_content' = Header(svg_width', svg_height')
    /\ char_index' = 0
    /\ line_index' = 0
    /\ pos' = 0
    /\ pc' = "h_line"
    /\ last' = Trace("HHeader", "", 0, 0)
    /\ UNCHANGED << request, result, setup, lines, hvars, vvars >>

\* second pass: if line.is_empty() { continue; }
HSkipEmptyLine ==
    /\ pc = "h_line"
    /\ line_index < Len(lines)
    /\ CurLine = <<>>
    /\ line_index' = line_index + 1
    /\ last' = Trace("HSkipEmptyLine", "", 0, cursor_x)
    /\ UNCHANGED << request, pc, result, setup, lines, pos, hvars, vvars,
                    svg_width, svg_height, svg_content, char_index >>

\* second pass, start of a non-empty line
HLineStart ==
    /\ pc = "h_line"
    /\ line_index < Len(lines)
    /\ CurLine # <<>>
    /\ start_x' = StartX(svg_width, line_widths[line_index + 1])
    /\ baseline_y' = BaselineY(line_index, request.font_size)
    /\ cursor_x' = start_x'
    /\ pos' = 0
    /\ pc' = "h_char"
    /\ last' = Trace("HLineStart", "", 0, cursor_x)
    /\ UNCHANGED << request, result, setup, lines, line_index, width, max_width, line_widths,
                    vvars, svg_width, svg_height, svg_content, char_index >>

\* the loop bookkeeping after a character of the second pass
HNextChar ==
    IF pos + 1 < Len(CurLine)
    THEN /\ pos' = pos + 1
         /\ UNCHANGED << pc, line_index >>
    ELSE /\ pos' = 0
         /\ line_index' = line_index + 1
         /\ pc' = "h_line"

\* second pass, a whitespace character
HWhitespace ==
    /\ pc = "h_char"
    /\ IsWhitespace(CurChar)
    /\ cursor_x' = cursor_x + HorizontalStep(CurChar, request.font_size)
    /\ char_index' = CharIndexAfter(char_index, CurChar)
    /\ HNextChar
    /\ last' = Trace("HWhitespace", CurChar, 0, cursor_x)
    /\ UNCHANGED << request, result, setup, lines, width, max_width, line_widths,
                    start_x, baseline_y, vvars, svg_width, svg_height, svg_content >>

\* second pass, a character the face has a glyph for
HGlyph ==
    /\ pc = "h_char"
    /\ ~IsWhitespace(CurChar)
    /\ glyph_index(CurChar).some
    /\ LET glyph_id == glyph_index(CurChar).v
           path_data == HorizontalPath(glyph_id, request.font_size, cursor_x, baseline_y)
       IN /\ svg_content' =
                IF path_data # <<>>
                THEN [svg_content EXCEPT !.groups = Append(@,
                        Group(char_index, CurChar,
                              GroupPaths(path_data, is_path_only, include_stroke,
                                         enabled_stroke_layers, request.text_color)))]
                ELSE svg_content
          /\ cursor_x' = cursor_x + HorAdvance(glyph_id, request.font_size)
          /\ last' = Trace("HGlyph", CurChar, glyph_id, cursor_x)
    /\ char_index' = CharIndexAfter(char_index, CurChar)
    /\ HNextChar
    /\ UNCHANGED << request, result, setup, lines, width, max_width, line_widths,
                    start_x, baseline_y, vvars, svg_width, svg_height >>

\* second pass, a character the face has no glyph for
HUnmapped ==
    /\ pc = "h_char"
    /\ ~IsWhitespace(CurChar)
    /\ ~glyph_index(CurChar).some
    /\ char_index' = CharIndexAfter(char_index, CurChar)
    /\ HNextChar
    /\ last' = Trace("HUnmapped", CurChar, 0, cursor_x)
    /\ UNCHANGED << request, result, setup, lines, hvars, vvars,
                    svg_width, svg_height, svg_content >>

\* svg_content.push_str("</svg>"); the document is returned
HFinish ==
    /\ pc = "h_line"
    /\ line_index = Len(lines)
    /\ svg_content' = [svg_content EXCEPT !.closed = TRUE]
    /\ result' = [ kind |-> "ok", msg |-> "" ]
    /\ pc' = "done"
    /\ last' = Trace("HFinish", "", 0, cursor_x)
    /\ UNCHANGED << request, setup, lines, line_index, pos, hvars, vvars,
                    svg_width, svg_height, char_index >>


\* -------------------------------------------------- generate_vertical_svg
\* BuzzFace::from_slice returns None: "Failed to create rustybuzz face"
VInitFail ==
    /\ pc = "v_init"
    /\ result' = [ kind |-> "err", msg |-> "Failed to create rustybuzz face" ]
    /\ pc' = "done"
    /\ last' = Trace("VInitFail", "", 0, 0)
    /\ UNCHANGED << request, setup, lines, line_index, pos, hvars, vvars,
                    svg_width, svg_height, svg_content, char_index >>

\* the shaping face is built; the text is split in lines
VInit ==
    /\ pc = "v_init"
    /\ lines' = Lines(request.text)
    /\ pc' = "v_shape"
    /\ last' = Trace("VInit", "", 0, 0)
    /\ UNCHANGED << request, result, setup, line_index, pos, hvars, vvars,
                    svg_width, svg_height, svg_content, char_index >>

\* the shaped glyphs of the current line and the one the loop stands at
CurShaped == Shape(CurLine)
CurGlyphId == GlyphIdU16(CurShaped[pos + 1])
\* let ch = if i < chars.len() { chars[i] } else { '?' }
CurShapedChar == IF pos < Len(CurLine) THEN CurLine[pos + 1] ELSE "?"

GlyphInfo(gid, ch, font_size) ==
    [ glyph_id |-> gid,
      y_advance |-> VerticalAdvance(gid, font_size),
      ch |-> ch,
      glyph_hor_advance |-> VerticalHorAdvance(gid, font_size),
      glyph_height |-> VerticalGlyphHeight(gid, font_size),
      glyph_y_origin |-> VerticalOrigin(gid, font_size) ]

\* first pass, one shaped glyph: its GlyphInfo is pushed, height += y_advance.
\* Where bbox.y_max - bbox.y_min leaves the i16 range this is the outcome of
\* a build without overflow checks (the difference wraps).
VGlyphInfo ==
    /\ pc = "v_shape"
    /\ line_index < Len(lines)
    /\ pos < Len(CurShaped)
    /\ LET info == GlyphInfo(CurGlyphId, CurShapedChar, request.font_size)
       IN /\ column_glyphs' = Append(column_glyphs, info)
          /\ height' = height + info.y_advance
          /\ last' = Trace("VGlyphInfo", CurShapedChar, CurGlyphId, height)
    /\ pos' = pos + 1
    /\ UNCHANGED << request, pc, result, setup, lines, line_index, hvars,
                    max_height, column_infos, col_center_x, cursor_y,
                    svg_width, svg_height, svg_content, char_index >>

\* first pass, one shaped glyph, in a build with overflow checks:
\* bbox.y_max - bbox.y_min overflows i16 and the thread panics
VHeightOverflowPanic ==
    /\ pc = "v_shape"
    /\ line_index < Len(lines)
    /\ pos < Len(CurShaped)
    /\ HeightOverflows(CurGlyphId)
    /\ result' = [ kind |-> "panic", msg |-> "attempt to subtract with overflow" ]
    /\ pc' = "done"
    /\ last' = Trace("VHeightOverflowPanic", CurShapedChar, CurGlyphId, height)
    /\ UNCHANGED << request, setup, lines, line_index, pos, hvars, vvars,
                    svg_width, svg_height, svg_content, char_index >>

\* first pass, end of a line: column_infos.push(column_glyphs), max_height
VColumnEnd ==
    /\ pc = "v_shape"
    /\ line_index < Len(lines)
    /\ pos = Len(CurShaped)
    /\ column_infos' = Append(column_infos, column_glyphs)
    /\ max_height' = IF height > max_height THEN height ELSE max_height
    /\ column_glyphs' = <<>>
    /\ height' = 0
    /\ pos' = 0
    /\ line_index' = line_index + 1
    /\ last' = Trace("VColumnEnd", "", 0, height)
    /\ UNCHANGED << request, pc, result, setup, lines, hvars, col_center_x, cursor_y,
                    svg_width, svg_height, svg_content, char_index >>

\* canvas size and document header
VHeader ==
    /\ pc = "v_shape"
    /\ line_index = Len(lines)
    /\ svg_width' = VerticalCanvasWidth(Len(lines), request.font_size)
    /\ svg_height' = VerticalCanvasHeight(max_height, request.font_size)
    /\ svg_content' = Header(svg_width', svg_height')
    /\ char_index' = 0
    /\ line_index' = 0
    /\ pos' = 0
    /\ pc' = "v_col"
    /\ last' = Trace("VHeader", "", 0, 0)
    /\ UNCHANGED << request, result, setup, lines, hvars, vvars >>

CurColumn == column_infos[line_index + 1]
CurInfo == CurColumn[pos + 1]

\* second pass: if column_glyphs.is_empty() { continue; }
VSkipEmptyColumn ==
    /\ pc = "v_col"
    /\ line_index < Len(column_infos)
    /\ CurColumn = <<>>
    /\ line_index' = line_index + 1
    /\ last' = Trace("VSkipEmptyColumn", "", 0, cursor_y)
    /\ UNCHANGED << request, pc, result, setup, lines, pos, hvars, vvars,
                    svg_width, svg_height, svg_content, char_index >>

\* second pass, start of a non-empty column
VColumnStart ==
    /\ pc = "v_col"
    /\ line_index < Len(column_infos)
    /\ CurColumn # <<>>
    /\ col_center_x' = ColCenterX(svg_width, line_index, request.font_size)
    /\ cursor_y' = VerticalPadding(request.font_size)
    /\ pos' = 0
    /\ pc' = "v_glyph"
    /\ last' = Trace("VColumnStart", "", 0, cursor_y)
    /\ UNCHANGED << request, result, setup, lines, line_index, hvars,
                    column_glyphs, height, max_height, column_infos,
                    svg_width, svg_height, svg_content, char_index >>

VNextGlyph ==
    IF pos + 1 < Len(CurColumn)
    THEN /\ pos' = pos + 1
         /\ UNCHANGED << pc, line_index >>
    ELSE /\ pos' = 0
         /\ line_index' = line_index + 1
         /\ pc' = "v_col"

\* second pass, a glyph whose character is whitespace
VWhitespace ==
    /\ pc = "v_glyph"
    /\ IsWhitespace(CurInfo.ch)
    /\ cursor_y' = cursor_y + CurInfo.y_advance
    /\ char_index' = CharIndexAfter(char_index, CurInfo.ch)
    /\ VNextGlyph
    /\ last' = Trace("VWhitespace", CurInfo.ch, CurInfo.glyph_id, cursor_y)
    /\ UNCHANGED << request, result, setup, lines, hvars,
                    column_glyphs, height, max_height, column_infos, col_center_x,
                    svg_width, svg_height, svg_content >>

\* second pass, any other glyph
VGlyph ==
    /\ pc = "v_glyph"
    /\ ~IsWhitespace(CurInfo.ch)
    /\ LET glyph_top_y == cursor_y + CurInfo.glyph_y_origin
           path_data == VerticalPath(CurInfo.glyph_id, request.font_size, col_center_x,
                                     glyph_top_y, CurInfo.glyph_hor_advance)
       IN svg_content' =
                IF path_data # <<>>
                THEN [svg_content EXCEPT !.groups = Append(@,
                        Group(char_index, CurInfo.ch,
                              GroupPaths(path_data, is_path_only, include_stroke,
                                         enabled_stroke_layers, request.text_color)))]
                ELSE svg_content
    /\ cursor_y' = cursor_y + CurInfo.y_advance
    /\ char_index' = CharIndexAfter(char_index, CurInfo.ch)
    /\ VNextGlyph
    /\ last' = Trace("VGlyph", CurInfo.ch, CurInfo.glyph_id, cursor_y)
    /\ UNCHANGED << request, result, setup, lines, hvars,
                    column_glyphs, height, max_height, column_infos, col_center_x,
                    svg_width, svg_height >>

\* svg_content.push_str("</svg>"); Ok(svg_content)
VFinish ==
    /\ pc = "v_col"
    /\ line_index = Len(column_infos)
    /\ svg_content' = [svg_content EXCEPT !.closed = TRUE]
    /\ result' = [ kind |-> "ok", msg |-> "" ]
    /\ pc' = "done"
    /\ last' = Trace("VFinish", "", 0, cursor_y)
    /\ UNCHANGED << request, setup, lines, line_index, pos, hvars, vvars,
                    svg_width, svg_height, char_index >>

\* ---------------------------------------------------------- specification
Next ==
    \/ GenerateSvgFontError
    \/ GenerateSvg
    \/ HMeasureChar
    \/ HMeasureLineEnd
    \/ HHeader
    \/ HSkipEmptyLine
    \/ HLineStart
    \/ HWhitespace
    \/ HGlyph
    \/ HUnmapped
    \/ HFinish
    \/ VInitFail
    \/ VInit
    \/ VGlyphInfo
    \/ VHeightOverflowPanic
    \/ VColumnEnd
    \/ VHeader
    \/ VSkipEmptyColumn
    \/ VColumnStart
    \/ VWhitespace
    \/ VGlyph
    \/ VFinish

Spec == Init /\ [][Next]_vars


\* ================================================================ claims
Groups == svg_content.groups
FaceParsed == pc # "start" /\ result.msg \notin FontErrors
Returned == pc = "done" /\ result.kind = "ok"

\* the enabled layers of the request, in declaration order
DeclaredEnabled == SelectSeq(request.stroke_layers, LAMBDA l : l.enabled)

\* the table value times scale, zero when the table has none
ResolvedHorAdvance(gid) ==
    IF Glyph(gid).hor_advance.some
    THEN Scaled(Glyph(gid).hor_advance.v, request.font_size)
    ELSE 0

\* the resolved horizontal advance of a character: zero without a glyph
CharHorAdvance(ch) ==
    IF glyph_index(ch).some THEN ResolvedHorAdvance(glyph_index(ch).v) ELSE 0

\* shaping advance negated, else native vertical advance, else font size
ResolvedVerAdvance(gid) ==
    IF Glyph(gid).buzz_y_advance # 0
    THEN (0 - Glyph(gid).buzz_y_advance) * request.font_size * (Unit \div UnitsPerEm)
    ELSE IF Glyph(gid).ver_advance.some
         THEN Scaled(Glyph(gid).ver_advance.v, request.font_size)
         ELSE Px(request.font_size)

\* C1: with export_mode "fill_and_stroke", every emitted group holds exactly
\* N+1 paths, N the number of enabled layers: the N stroke paths in the
\* reverse of the declaration order of the enabled layers, then one fill
\* path with text_color; a disabled layer contributes no path.
C1_FillAndStrokeLayers ==
    request.export_mode = "fill_and_stroke" =>
        \A g \in 1..Len(Groups) :
            LET paths == Groups[g].paths
                N == Len(DeclaredEnabled)
            IN /\ Len(paths) = N + 1
               /\ \A k \in 1..N :
                    /\ "stroke" \in paths[k].attrs
                    /\ paths[k].stroke = DeclaredEnabled[N + 1 - k].color
                    /\ paths[k].fill = DeclaredEnabled[N + 1 - k].color
                    /\ paths[k].stroke_width = DeclaredEnabled[N + 1 - k].width * 20
               /\ paths[N + 1].attrs = {"fill"}
               /\ paths[N + 1].fill = request.text_color
               /\ \A k \in 1..(N + 1) : paths[k].d = paths[1].d

\* a finished fill_and_stroke document with a glyph group, two enabled layers
\* and hence three paths, the last-declared layer first
C1_Witness ==
    /\ Returned
    /\ request.export_mode = "fill_and_stroke"
    /\ Len(DeclaredEnabled) = 2
    /\ Len(Groups) > 0
    /\ Len(Groups[1].paths) = 3
    /\ Groups[1].paths[1].stroke = request.stroke_layers[2].color
    /\ Groups[1].paths[2].stroke = request.stroke_layers[1].color

\* C2: with export_mode "path_only", whatever the stroke layers and the
\* direction, every glyph with outline data is emitted as a group of exactly
\* one path that has neither a fill nor a stroke attribute (nor any other).
C2_PathOnlyUnstyled ==
    request.export_mode = "path_only" =>
        /\ \A g \in 1..Len(Groups) :
              /\ Len(Groups[g].paths) = 1
              /\ Groups[g].paths[1].attrs = {}
        /\ (last.op \in {"HGlyph", "VGlyph"} /\ Glyph(last.gid).outline # <<>>) =>
              /\ Len(Groups) = last.ngroups + 1
              /\ Len(Groups[Len(Groups)].paths[1].d) = Len(Glyph(last.gid).outline)

\* a finished path_only document of a request with an enabled stroke layer
C2_Witness ==
    /\ Returned
    /\ request.export_mode = "path_only"
    /\ Len(DeclaredEnabled) > 0
    /\ Len(Groups) > 0
    /\ request.vertical

\* C3: a whitespace character emits no group, moves the cursor by exactly its
\* resolved advance (horizontal advance for cursor_x, vertical advance for
\* cursor_y) and takes one character index; the glyph after a leading space
\* is drawn at the line's start position plus the space's advance.
C3_WhitespaceAdvances ==
    /\ last.op = "HWhitespace" =>
          /\ cursor_x = last.cursor + CharHorAdvance(last.ch)
          /\ Len(Groups) = last.ngroups
          /\ char_index = last.char_index + 1
    /\ last.op = "VWhitespace" =>
          /\ cursor_y = last.cursor + ResolvedVerAdvance(last.gid)
          /\ Len(Groups) = last.ngroups
          /\ char_index = last.char_index + 1
    /\ (last.op = "HGlyph" /\ last.pos = 1
            /\ IsWhitespace(lines[last.line_index + 1][1])) =>
          /\ last.cursor = start_x + CharHorAdvance(lines[last.line_index + 1][1])
          /\ Groups[Len(Groups)].paths[1].d[1].args[1] =
                Fmt2(start_x + CharHorAdvance(lines[last.line_index + 1][1])
                     + Scaled(Glyph(last.gid).outline[1].pts[1], request.font_size))
    /\ (last.op = "VGlyph" /\ last.pos = 1
            /\ IsWhitespace(column_infos[last.line_index + 1][1].ch)) =>
          last.cursor = VerticalPadding(request.font_size)
                        + ResolvedVerAdvance(column_infos[last.line_index + 1][1].glyph_id)

\* a leading space has just been processed in a horizontal line: the cursor
\* left the start position and nothing was emitted
C3_Witness ==
    /\ last.op = "HWhitespace"
    /\ last.pos = 0
    /\ last.cursor = start_x
    /\ cursor_x > start_x
    /\ Len(Groups) = 0


\* ------------------------------------------------ the text, read directly
Max(a, b) == IF a > b THEN a ELSE b

\* the number of lines: one per line break, plus the unterminated last line
LineCount(text) ==
    Cardinality({ i \in 1..Len(text) : text[i] = "\n" })
        + (IF text # <<>> /\ text[Len(text)] # "\n" THEN 1 ELSE 0)

\* the sum of the resolved horizontal advances of a line's characters
RECURSIVE LineAdvance(_)
LineAdvance(line) ==
    IF line = <<>> THEN 0 ELSE CharHorAdvance(Head(line)) + LineAdvance(Tail(line))

\* the largest LineAdvance over the lines of the text
RECURSIVE WidestLine(_, _, _)
WidestLine(text, cur, best) ==
    IF text = <<>> THEN Max(cur, best)
    ELSE IF Head(text) = "\n" THEN WidestLine(Tail(text), 0, Max(cur, best))
    ELSE WidestLine(Tail(text), cur + CharHorAdvance(Head(text)), best)

HSized == ~request.vertical /\ (pc \in {"h_line", "h_char"} \/ Returned)
VSized == request.vertical /\ (pc \in {"v_col", "v_glyph"} \/ Returned)

\* C4 as claimed: for text "" and a parsed font, generation in either
\* direction returns a document of 2 x padding by 2 x padding without groups.
C4_EmptyTextNeverFails ==
    (pc = "done" /\ request.text = <<>> /\ FaceParsed) =>
        /\ result.kind = "ok"
        /\ Groups = <<>>
        /\ svg_width = IF request.vertical
                       THEN Px(request.font_size) + Px(40) ELSE Px(40)
        /\ svg_height = svg_width

\* C4 amended: for text "" and a parsed font, horizontal generation returns
\* a document; vertical generation returns a document unless the shaping
\* face cannot be built, which is the only error it returns.  The document
\* is 2 x padding wide and high (padding 20, or font_size * 0.5 + 20 for
\* vertical) and has no glyph group.
C4_EmptyTextMinimalDocument ==
    (pc = "done" /\ request.text = <<>> /\ FaceParsed) =>
        /\ \/ result.kind = "ok"
           \/ /\ request.vertical
              /\ result = [ kind |-> "err", msg |-> "Failed to create rustybuzz face" ]
        /\ result.kind = "ok" =>
              /\ Groups = <<>>
              /\ svg_content.closed
              /\ svg_width = IF request.vertical
                             THEN Px(request.font_size) + Px(40) ELSE Px(40)
              /\ svg_height = svg_width
              /\ svg_content.width = IF request.vertical
                                     THEN request.font_size + 40 ELSE 40
              /\ svg_content.height = svg_content.width

\* the vertical engine returned the padding-only document for text ""
C4_Witness ==
    /\ Returned
    /\ request.text = <<>>
    /\ request.vertical
    /\ svg_content.width = request.font_size + 40

\* C5 as claimed: a character without a glyph in the font emits no group
\* and moves neither the cursor nor the measured width / column extent, in
\* both layouts.
C5_UnmappedSkipped ==
    (last.ch \in Chars /\ ~glyph_index(last.ch).some) =>
        /\ last.op = "HMeasureChar" => width = last.cursor
        /\ last.op \in {"HWhitespace", "HGlyph", "HUnmapped"} =>
              cursor_x = last.cursor /\ Len(Groups) = last.ngroups
        /\ last.op = "VGlyphInfo" => height = last.cursor
        /\ last.op \in {"VWhitespace", "VGlyph"} =>
              cursor_y = last.cursor /\ Len(Groups) = last.ngroups

\* C6: every non-empty horizontal line starts at (canvasWidth - its own
\* width) / 2 and ends at start + its own width, so both margins are equal;
\* lines of different widths start at different positions.
C6_LineCenteredOnOwnWidth ==
    /\ last.op = "HLineStart" =>
          /\ 2 * start_x + LineAdvance(CurLine) = svg_width
          /\ cursor_x = start_x
          /\ \A k \in 0..(line_index - 1) :
                (/\ lines[k + 1] # <<>>
                 /\ \A j \in (k + 1)..(line_index - 1) : lines[j + 1] = <<>>
                 /\ LineAdvance(lines[k + 1]) # LineAdvance(CurLine))
                => start_x # last.start_x
    /\ (pc = "h_line" /\ last.op \in {"HWhitespace", "HGlyph", "HUnmapped"}) =>
          /\ cursor_x = start_x + LineAdvance(lines[last.line_index + 1])
          /\ start_x + LineAdvance(lines[last.line_index + 1]) + start_x = svg_width

\* the second of two lines of different widths has been started, at another
\* position than the first
C6_Witness ==
    /\ last.op = "HLineStart"
    /\ line_index = 1
    /\ lines[1] # <<>>
    /\ LineAdvance(lines[1]) # LineAdvance(lines[2])
    /\ LineAdvance(lines[1]) > 0
    /\ LineAdvance(lines[2]) > 0
    /\ start_x # last.start_x

\* C7: horizontal canvas width = widest line (sum of the advances of all its
\* characters, whitespace included) + 2 x 20; height = lineCount x fontSize
\* x 1.2 + 2 x 20, empty lines counted; "A" at size 100 gives 160.
C7_HorizontalCanvas ==
    HSized =>
        /\ svg_width = WidestLine(request.text, 0, 0) + 2 * Px(20)
        /\ 10 * (svg_height - 2 * Px(20))
              = 12 * LineCount(request.text) * Px(request.font_size)
        /\ svg_content.width = Fmt0(svg_width)
        /\ svg_content.height = Fmt0(svg_height)
        /\ (request.text = <<"A">> /\ request.font_size = 100) =>
              svg_content.height = 160

\* a finished horizontal document of a three-line text whose middle line is
\* empty: the empty line is counted in the height
C7_Witness ==
    /\ Returned
    /\ ~request.vertical
    /\ Len(lines) = 3
    /\ lines[2] = <<>>
    /\ svg_height = 3 * LineHeight(request.font_size) + Px(40)

\* C8: vertical canvas width = lineCount x lineHeight + 2 x padding, one
\* column slot per line; column k is centred at canvasWidth - padding -
\* (k + 0.5) x lineHeight, so centres strictly decrease with the index.
C8_ColumnsRightToLeft ==
    VSized =>
        /\ Len(column_infos) = LineCount(request.text)
        /\ 10 * (svg_width - (Px(request.font_size) + Px(40)))
              = 12 * LineCount(request.text) * Px(request.font_size)
        /\ \A j, k \in 0..(Len(column_infos) - 1) :
              j < k => ColCenterX(svg_width, j, request.font_size)
                         > ColCenterX(svg_width, k, request.font_size)
        /\ last.op = "VColumnStart" =>
              /\ 20 * col_center_x
                    = 20 * svg_width - 10 * (Px(request.font_size) + Px(40))
                      - (2 * line_index + 1) * 12 * Px(request.font_size)
              /\ (\E j \in 0..(line_index - 1) : column_infos[j + 1] # <<>>)
                    => col_center_x < last.col_center_x

\* the second of two non-empty columns has been started, left of the first
C8_Witness ==
    /\ last.op = "VColumnStart"
    /\ line_index = 1
    /\ column_infos[1] # <<>>
    /\ col_center_x < last.col_center_x
    /\ last.col_center_x = ColCenterX(svg_width, 0, request.font_size)

\* C9 as claimed: whatever the face reports, a call ends in a returned
\* document or a returned error value, never in a panic.
C9_NeverPanics ==
    pc = "done" => result.kind \in {"ok", "err"}

\* C10 as claimed: wherever a horizontal advance is used it is the table
\* value times scale, and zero when the font has none for the glyph: in the
\* measured width, in the cursor step, and in the glyph_hor_advance of the
\* vertical engine.
C10_HorAdvanceZeroWhenAbsent ==
    /\ last.op = "HMeasureChar" => width = last.cursor + CharHorAdvance(last.ch)
    /\ last.op \in {"HWhitespace", "HGlyph", "HUnmapped"} =>
          cursor_x = last.cursor + CharHorAdvance(last.ch)
    /\ \A i \in 1..Len(column_glyphs) :
          column_glyphs[i].glyph_hor_advance = ResolvedHorAdvance(column_glyphs[i].glyph_id)


\* C11: the vertical advance of every shaped glyph is the negated shaping
\* advance times scale when the shaper reports a non-zero one (whatever the
\* font tables hold), else the font's native vertical advance times scale,
\* else the font size; the column extent and the column cursor both move by
\* exactly this value for every glyph.
C11_VerticalAdvanceFallback ==
    /\ last.op = "VGlyphInfo" =>
          /\ column_glyphs[Len(column_glyphs)].glyph_id = last.gid
          /\ column_glyphs[Len(column_glyphs)].y_advance = ResolvedVerAdvance(last.gid)
          /\ height = last.cursor + ResolvedVerAdvance(last.gid)
    /\ last.op \in {"VWhitespace", "VGlyph"} =>
          cursor_y = last.cursor + ResolvedVerAdvance(last.gid)
    /\ \A c \in 1..Len(column_infos) : \A i \in 1..Len(column_infos[c]) :
          column_infos[c][i].y_advance = ResolvedVerAdvance(column_infos[c][i].glyph_id)

\* a column in which all three sources were used has been measured: "A"
\* (shaper's advance, although the font has another), "z" (native advance),
\* the space (font size); its extent is their sum plus the mark's
C11_Witness ==
    /\ pc = "v_shape"
    /\ last.op = "VGlyphInfo"
    /\ Len(column_glyphs) = 4
    /\ column_glyphs[1].glyph_id = 1
    /\ column_glyphs[1].y_advance = Scaled(1100, request.font_size)
    /\ column_glyphs[1].y_advance # Scaled(Glyph(1).ver_advance.v, request.font_size)
    /\ column_glyphs[2].glyph_id = 3
    /\ column_glyphs[2].y_advance = Scaled(900, request.font_size)
    /\ column_glyphs[4].glyph_id = 2
    /\ column_glyphs[4].y_advance = Px(request.font_size)
    /\ height = Scaled(1100 + 900 + 200, request.font_size) + Px(request.font_size)


\* the characters (horizontal) or shaped glyphs (vertical) before position
\* p of line l, both 0-based
RECURSIVE ProcessedBefore(_, _, _)
ProcessedBefore(counts, l, p) ==
    IF l = 0 THEN p ELSE Head(counts) + ProcessedBefore(Tail(counts), l - 1, p)

LineLengths == [k \in 1..Len(lines) |-> Len(lines[k])]
ShapedLengths == [k \in 1..Len(lines) |-> Len(Shape(lines[k]))]

\* C12: the character index grows by exactly one for every processed
\* character (horizontal) or shaped glyph (vertical), emitted or not, and by
\* nothing for line breaks and empty lines; so the id of every group is the
\* number of characters / glyphs processed before it, and ids strictly
\* increase in document order.
C12_CharIndexCountsProcessed ==
    /\ last.op \in {"HWhitespace", "HGlyph", "HUnmapped", "VWhitespace", "VGlyph"} =>
          char_index = last.char_index + 1
    /\ last.op \in {"HSkipEmptyLine", "HLineStart", "VSkipEmptyColumn", "VColumnStart",
                    "HFinish", "VFinish"} =>
          char_index = last.char_index
    /\ pc \in {"h_line", "h_char"} =>
          char_index = ProcessedBefore(LineLengths, line_index, pos)
    /\ pc \in {"v_col", "v_glyph"} =>
          char_index = ProcessedBefore(ShapedLengths, line_index, pos)
    /\ (Returned /\ ~request.vertical) =>
          char_index = Cardinality({ i \in 1..Len(request.text) : request.text[i] # "\n" })
    /\ (last.op \in {"HGlyph", "VGlyph"} /\ Len(Groups) > last.ngroups) =>
          /\ Groups[Len(Groups)].id = last.char_index
          /\ Groups[Len(Groups)].id =
                ProcessedBefore(IF request.vertical THEN ShapedLengths ELSE LineLengths,
                                last.line_index, last.pos)
    /\ \A g \in 1..(Len(Groups) - 1) : Groups[g].id < Groups[g + 1].id

\* a finished document whose only group has id 2: the two characters before
\* it (whitespace, unmapped or outline-less) took the indices 0 and 1
C12_Witness ==
    /\ Returned
    /\ Len(Groups) = 1
    /\ Groups[1].id = 2
    /\ char_index = 3

====
